---- MODULE Spec2Model ----
(***************************************************************************)
(* A model of rich-logger: the terminal writer with its process-wide       *)
(* cursor column, the column layout, the plain-text line wrap of log_impl, *)
(* the JSON tokenizer and its wrap-aware renderer, and the synchronous and *)
(* asynchronous dispatch.                                                  *)
(*                                                                         *)
(* Text is a sequence of characters.  A character is a string; the         *)
(* characters that matter to the code are named below.  EAcute stands for  *)
(* a character whose UTF-8 encoding is two bytes long.                     *)
(***************************************************************************)
EXTENDS Integers, Sequences, FiniteSets, TLC

VARIABLES
    cursor_pos,     \* RichLogger.cursor_pos (AtomicI32)
    last_second,    \* RichLogger.last_second (AtomicI64)
    now,            \* the wall clock at its last reading, in seconds
    build,          \* the build profile, once an overflow has shown it
    logger,         \* which logger is installed: "RichLogger" or "Logarithmic"
    col,            \* terminal: characters on the current physical line
    out,            \* terminal: the writes of the render in progress or last ended
    order,          \* terminal: record ids in the order of their writes
    time_out,       \* terminal: what each write_time call put in the time column
    last,           \* the last operation executed and the cursor it started from
    prog,           \* per thread: the operations left of the render in progress
    cur,            \* per thread: the record being rendered and the width read
    spf,            \* per thread: print_json_color's should_print_filename
    panicked,       \* per thread: the thread has panicked
    chan,           \* async: the mpsc channel's queue
    sender_alive,   \* async: the sending half still exists
    rx_state,       \* async: the consumer thread's state
    logged,         \* the thread that logged each record so far, in order
    json_value,     \* the JSON tree handed to the tokenizer
    tokens,         \* the tokens tokenize_json_value returned
    facade,         \* the log facade: the installed backend and the maximum level
    lazy,           \* LOGGER (LazyLock): its initialization, and the threads it spawned
    tty             \* stdout: whether writes to it succeed

vars == <<cursor_pos, last_second, now, build, logger, col, out, order,
          time_out, last, prog, cur, spf, panicked, chan, sender_alive, rx_state,
          logged, json_value, tokens, facade, lazy, tty>>

(***************************************************************************)
(* Bounds of the model.                                                    *)
(***************************************************************************)
MaxLen == 3
MaxRecords == 2
MaxClock == 2
MaxShortLen == 1
MaxNodes == 3
MaxInits == 3

(***************************************************************************)
(* Characters and text.                                                    *)
(***************************************************************************)
TAB == "TAB"
LF == "LF"
CR == "CR"
SP == " "
EAcute == "e_acute"
DQ == "DQ"
BSL == "BSL"

Max(a, b) == IF a >= b THEN a ELSE b
Min(a, b) == IF a <= b THEN a ELSE b

\* The UTF-8 length of a character: what str::len counts.
Utf8Len(c) == IF c = EAcute THEN 2 ELSE 1

RECURSIVE ByteLen(_)
ByteLen(s) == IF s = <<>> THEN 0 ELSE Utf8Len(Head(s)) + ByteLen(Tail(s))

RECURSIVE Spaces(_)
Spaces(n) == IF n <= 0 THEN <<>> ELSE <<SP>> \o Spaces(n - 1)

RECURSIVE SeqsUpTo(_, _)
SeqsUpTo(S, n) ==
    IF n = 0 THEN {<<>>}
    ELSE LET shorter == SeqsUpTo(S, n - 1)
         IN  shorter \cup {Append(s, c) : s \in shorter, c \in S}

Last(s) == s[Len(s)]

(***************************************************************************)
(* The column layout.                                                      *)
(***************************************************************************)
TIME_COLUMN == 0
LEVEL_COLUMN == 11
CONTENT_COLUMN == 17

tab_stop(stop) ==
    CASE stop = "Time" -> TIME_COLUMN
      [] stop = "Level" -> LEVEL_COLUMN
      [] stop = "Content" -> CONTENT_COLUMN

Levels == {"Error", "Warn", "Info", "Debug", "Trace"}

\* A severity with a four-letter name and one with a five-letter name.
SomeLevels == {"Info", "Error"}

\* Level's Display.
LevelName(level) ==
    CASE level = "Error" -> <<"E", "R", "R", "O", "R">>
      [] level = "Warn" -> <<"W", "A", "R", "N">>
      [] level = "Info" -> <<"I", "N", "F", "O">>
      [] level = "Debug" -> <<"D", "E", "B", "U", "G">>
      [] level = "Trace" -> <<"T", "R", "A", "C", "E">>

\* The text of format("[%H:%M:%S] "): eleven one-byte characters whatever the time.
FormattedTime == <<"[", "H", "H", ":", "M", "M", ":", "S", "S", "]", SP>>

(***************************************************************************)
(* The terminal writer.  A terminal state s is a record of the Render      *)
(* State (cursor_pos, last_second) and of what the terminal has received.  *)
(***************************************************************************)
Span(kind, at, text, rec) == [kind |-> kind, col |-> at, text |-> text, rec |-> rec]

\* The terminal's column after `text`: a line feed in the text starts a new line.
RECURSIVE ColAfter(_, _)
ColAfter(c, text) ==
    IF text = <<>> THEN c
    ELSE ColAfter(IF Head(text) = LF THEN 0 ELSE c + 1, Tail(text))

Seen(ord, rec) == IF ord # <<>> /\ Last(ord) = rec THEN ord ELSE Append(ord, rec)

\* The text reaches stdout.
Emit(s, text, kind, rec) ==
    [s EXCEPT !.col = ColAfter(@, text),
              !.out = Append(@, Span(kind, s.col, text, rec)),
              !.order = Seen(@, rec)]

\* How a write to stdout can go.  "ok": execute! succeeds.  "color_fails":
\* execute! fails before it has written the text, and print! succeeds.
\* "flush_fails": execute! has put the text in stdout's buffer when its flush
\* fails, and print! puts it there again.  "print_fails": execute! fails and so
\* does the write of print! (println!), which panics.
IoOutcomes == IF tty = "ok" THEN {"ok"}
              ELSE {"ok", "color_fails", "flush_fails", "print_fails"}

\* write_string: the cursor is advanced first, then the text is written; a
\* thread that has panicked writes no more.
write_string(s, text, kind, rec) ==
    IF s.crashed THEN s
    ELSE LET counted == [s EXCEPT !.cursor_pos = @ + ByteLen(text)]
         IN  CASE s.io \in {"ok", "color_fails"} -> Emit(counted, text, kind, rec)
               [] s.io = "flush_fails" ->
                    Emit(Emit(counted, text, kind, rec), text, kind, rec)
               [] s.io = "print_fails" -> [counted EXCEPT !.crashed = TRUE]

add_newline(s, rec) ==
    IF s.crashed THEN s
    ELSE IF s.io = "print_fails" THEN [s EXCEPT !.crashed = TRUE]
    ELSE [s EXCEPT !.cursor_pos = 0,
                   !.col = 0,
                   !.out = Append(@, Span("newline", s.col, <<>>, rec)),
                   !.order = Seen(@, rec)]

\* pad_to_column writing column_size spaces wherever the cursor is.
pad_to_column_from_zero(s, column_size, rec) ==
    write_string(s, Spaces(column_size), "pad", rec)

pad_to_column(s, column_size, rec) ==
    write_string(s, Spaces(column_size - s.cursor_pos), "pad", rec)

write_level(s, level, rec) == write_string(s, LevelName(level), "level", rec)

\* Logarithmic::write_level padding to the wrong tab stop.
Logarithmic_write_level_to_level_column(s, level, rec) ==
    pad_to_column(write_string(s, LevelName(level), "level", rec), 11, rec)

Logarithmic_write_level(s, level, rec) ==
    pad_to_column(write_string(s, LevelName(level), "level", rec), 17, rec)

\* A cache that is never current: write_time formats every time.
TimeNeverCached(s, t) == FALSE

\* Whether write_time finds the cached second current.
TimeIsCached(s, t) == s.last_second = t

\* write_time, get_time() returning t1 in the comparison and t2 in update_time.
write_time(s, t1, t2, rec) ==
    LET r == IF TimeIsCached(s, t1)
             THEN write_string(s, Spaces(11 - s.cursor_pos), "time", rec)
             ELSE write_string([s EXCEPT !.last_second = t2], FormattedTime, "time", rec)
    IN  [r EXCEPT !.time_out =
            Append(@, [sec |-> t1, from |-> s.cursor_pos, after |-> r.cursor_pos,
                       text |-> Last(r.out).text, formatted |-> ~TimeIsCached(s, t1),
                       cache |-> r.last_second])]

(***************************************************************************)
(* Machine integers.  usize subtraction panics on underflow in a build     *)
(* with overflow checks and wraps otherwise.  UsizeModulus stands for      *)
(* 2^64 (the model checker's integers are 32 bits wide): every length and  *)
(* width of the model is far below it, so a wrapped difference exceeds     *)
(* every length, as it does in the program.                                *)
(***************************************************************************)
UsizeModulus == 2^30

UsizeWrappingSub(a, b) == IF a < b THEN a - b + UsizeModulus ELSE a - b

\* A usize cast to i32 keeps the low 32 bits: a wrapped small negative difference
\* becomes that negative number again.
AsI32(u) == IF u >= UsizeModulus \div 2 THEN u - UsizeModulus ELSE u

(***************************************************************************)
(* Log records.                                                            *)
(***************************************************************************)
Chars == {"a", EAcute, LF, TAB, CR}

Contents == SeqsUpTo(Chars, MaxLen)

\* Short texts: empty, of one line, of line feeds.
ShortContents == SeqsUpTo({"a", LF}, MaxShortLen)

\* file_name(record): "" when the record has no file or no line, else "file:line".
FileNames == {<<>>, <<"a", ".", "r", "s", ":", "5">>}

\* What crossterm::terminal::size() can report (80 when it fails).
Widths == {0, 18, 20, 26}

\* The widths among them that leave room for the content of every record.
WideWidths == {26}

NoRecord == [id |-> 0, level |-> "Info", file_name |-> <<>>, ctype |-> "none",
             content |-> <<>>, tokens |-> <<>>]

TextRecord(id, level, file_name, content) ==
    [id |-> id, level |-> level, file_name |-> file_name, ctype |-> "text",
     content |-> content, tokens |-> <<>>]

Idle == [rec |-> NoRecord, width |-> 0]

(***************************************************************************)
(* The plain-text line wrap of log_impl.                                   *)
(***************************************************************************)
\* .replace("\t", "    ").replace("\r", "")
RECURSIVE Normalize(_)
Normalize(text) ==
    IF text = <<>> THEN <<>>
    ELSE LET c == Head(text)
         IN  (CASE c = TAB -> <<SP, SP, SP, SP>>
                [] c = CR -> <<>>
                [] OTHER -> <<c>>) \o Normalize(Tail(text))

\* Chunks with an off-by-one at the chunk boundary: the character after each
\* full chunk is skipped.
RECURSIVE ChunksSkipping(_, _)
ChunksSkipping(s, n) ==
    IF s = <<>> THEN <<>>
    ELSE IF Len(s) <= n THEN <<s>>
    ELSE <<SubSeq(s, 1, n)>> \o ChunksSkipping(SubSeq(s, n + 2, Len(s)), n)

\* slice::chunks(n) over the characters, n > 0.
RECURSIVE Chunks(_, _)
Chunks(s, n) ==
    IF s = <<>> THEN <<>>
    ELSE IF Len(s) <= n THEN <<s>>
    ELSE <<SubSeq(s, 1, n)>> \o Chunks(SubSeq(s, n + 1, Len(s)), n)

\* str::split("\n"): one more piece than there are line feeds.
RECURSIVE SplitNewline(_)
SplitNewline(s) ==
    IF \A i \in 1..Len(s) : s[i] # LF THEN <<s>>
    ELSE LET i == CHOOSE k \in 1..Len(s) :
                      s[k] = LF /\ \A j \in 1..(k - 1) : s[j] # LF
         IN  <<SubSeq(s, 1, i - 1)>> \o SplitNewline(SubSeq(s, i + 1, Len(s)))

RECURSIVE FlatMapSplit(_)
FlatMapSplit(chunks) ==
    IF chunks = <<>> THEN <<>>
    ELSE SplitNewline(Head(chunks)) \o FlatMapSplit(Tail(chunks))

\* The lines of log_impl for a chunk size.
Lines(content, chunk_size) == FlatMapSplit(Chunks(Normalize(content), chunk_size))

\* width - tab_stop(Content) - file_name.len() - 1, in the integers.
ChunkDifference(width, file_name) ==
    width - tab_stop("Content") - ByteLen(file_name) - 1

\* The chunk size of a build without overflow checks: the difference, wrapped.
ChunkSize(width, file_name) ==
    UsizeWrappingSub(width, tab_stop("Content") + ByteLen(file_name) + 1)

(***************************************************************************)
(* A render is a sequence of operations on the terminal writer; a thread   *)
(* executes them one at a time.                                            *)
(***************************************************************************)
Op(op, n, text) == [op |-> op, n |-> n, text |-> text]

PadOp(n) == Op("pad", n, <<>>)
WriteOp(kind, text) == Op(kind, 0, text)
NewlineOp == Op("newline", 0, <<>>)

\* log_impl up to the computation of the lines.
LogImplHead ==
    <<PadOp(tab_stop("Time")), Op("time", 0, <<>>), PadOp(tab_stop("Level")),
      Op("level", 0, <<>>), Op("chunks", 0, <<>>)>>

\* log_impl's loop over the lines.
RECURSIVE LineOps(_, _, _, _)
LineOps(lines, first_line, width, file_name) ==
    IF lines = <<>> THEN <<>>
    ELSE <<PadOp(tab_stop("Content")), WriteOp("content", Head(lines))>>
         \o (IF first_line
             THEN <<PadOp(AsI32(UsizeWrappingSub(width, ByteLen(file_name)))),
                    WriteOp("origin", file_name)>>
             ELSE <<>>)
         \o <<NewlineOp>>
         \o LineOps(Tail(lines), FALSE, width, file_name)

\* The rest of log_impl once the chunk size is known, or a panic: the
\* subtraction underflows under overflow checks, or chunks(0) is called.
LogImplRest(c, profile) ==
    LET d == ChunkDifference(c.width, c.rec.file_name)
    IN  IF (d < 0 /\ profile = "debug") \/ d = 0
        THEN [panic |-> TRUE, ops |-> <<>>]
        ELSE [panic |-> FALSE,
              ops |-> LineOps(Lines(c.rec.content, ChunkSize(c.width, c.rec.file_name)),
                              TRUE, c.width, c.rec.file_name)]

(***************************************************************************)
(* Logarithmic, the logger of main.rs: no origin suffix, content at column *)
(* 20, the text chunked as it is.                                          *)
(***************************************************************************)
\* Logarithmic::enabled: metadata.level() <= Level::Info.
LogarithmicEnabled(level) == level \in {"Error", "Warn", "Info"}

\* Logarithmic::log up to the computation of the lines.
LogarithmicHead == <<Op("time", 0, <<>>), Op("level", 0, <<>>), Op("chunks", 0, <<>>)>>

RECURSIVE LogarithmicLineOps(_)
LogarithmicLineOps(lines) ==
    IF lines = <<>> THEN <<>>
    ELSE <<PadOp(20), WriteOp("content", Head(lines)), NewlineOp>>
         \o LogarithmicLineOps(Tail(lines))

\* The rest of Logarithmic::log, or a panic: width - padding_to_level
\* underflows under overflow checks, or chunks(0) is called.
LogarithmicRest(c, profile) ==
    LET d == c.width - 20
    IN  IF (d < 0 /\ profile = "debug") \/ d = 0
        THEN [panic |-> TRUE, ops |-> <<>>]
        ELSE [panic |-> FALSE,
              ops |-> LogarithmicLineOps(
                          Chunks(c.rec.content, UsizeWrappingSub(c.width, 20)))]

(***************************************************************************)
(* JSON trees (serde_json::Value) and their tokens.  A number is the text  *)
(* serde_json's Number displays; an object is the sequence of its entries  *)
(* in the order the map iterates them.                                     *)
(***************************************************************************)
JsonNull == [k |-> "null"]
JsonBool(b) == [k |-> "bool", b |-> b]
JsonNumber(n) == [k |-> "num", n |-> n]
JsonString(s) == [k |-> "str", s |-> s]
JsonArray(a) == [k |-> "arr", a |-> a]
JsonObject(o) == [k |-> "obj", o |-> o]

JsonLeaves ==
    {JsonNull, JsonBool(TRUE), JsonBool(FALSE), JsonNumber(<<"1">>),
     JsonNumber(<<"-", "1", ".", "0">>)}
    \cup {JsonString(s) : s \in {<<>>, <<"a">>, <<EAcute>>, <<DQ>>, <<BSL>>}}

JsonKeys == {<<"a">>, <<"b">>}

\* The sequences of distinct keys of a length.
KeySeqs(n) ==
    {ks \in [1..n -> JsonKeys] : \A i, j \in 1..n : i # j => ks[i] # ks[j]}

RECURSIVE JsonSize(_), JsonSizes(_)
JsonSize(v) ==
    CASE v.k = "arr" -> 1 + JsonSizes(v.a)
      [] v.k = "obj" -> 1 + JsonSizes([i \in 1..Len(v.o) |-> v.o[i][2]])
      [] OTHER -> 1
JsonSizes(vs) == IF vs = <<>> THEN 0 ELSE JsonSize(Head(vs)) + JsonSizes(Tail(vs))

\* The trees over the leaves with at most n nodes, and the sequences of them
\* with at most n nodes together.
RECURSIVE JsonTrees(_, _), JsonForests(_, _)
JsonTrees(leaves, n) ==
    IF n = 0 THEN {}
    ELSE leaves
         \cup {JsonArray(f) : f \in JsonForests(leaves, n - 1)}
         \cup UNION {{JsonObject([i \in 1..Len(f) |-> <<ks[i], f[i]>>]) :
                         ks \in KeySeqs(Len(f))} :
                     f \in {g \in JsonForests(leaves, n - 1) :
                               Len(g) <= Cardinality(JsonKeys)}}
JsonForests(leaves, n) ==
    {<<>>} \cup UNION {{<<v>> \o f : f \in JsonForests(leaves, n - JsonSize(v))} :
                         v \in JsonTrees(leaves, n)}

JsonValues == JsonTrees(JsonLeaves, MaxNodes)

Token(kind, lit, content) == [kind |-> kind, lit |-> lit, content |-> content]

BoolText(b) == IF b THEN <<"t", "r", "u", "e">> ELSE <<"f", "a", "l", "s", "e">>

\* f64's Display of n.as_f64(): a whole number shows no fraction.
F64Text(n) ==
    IF Len(n) >= 2 /\ n[Len(n) - 1] = "." /\ n[Len(n)] = "0"
    THEN SubSeq(n, 1, Len(n) - 2)
    ELSE n

\* format!("\"{}\"", s): the text between two quotes, as it is.
Quoted(s) == <<DQ>> \o s \o <<DQ>>

RECURSIVE tokenize_json_value(_), TokenizeArray(_, _), TokenizeObject(_, _)
tokenize_json_value(v) ==
    CASE v.k = "null" -> <<Token("NullLiteral", <<>>, <<"n", "u", "l", "l">>)>>
      [] v.k = "bool" -> <<Token("BooleanLiteral", BoolText(v.b), BoolText(v.b))>>
      [] v.k = "num" -> <<Token("NumberLiteral", F64Text(v.n), v.n)>>
      [] v.k = "str" -> <<Token("StringLiteral", v.s, Quoted(v.s))>>
      [] v.k = "arr" ->
            <<Token("JsonLBracket", <<>>, <<"[">>)>>
            \o TokenizeArray(v.a, 1)
            \o <<Token("JsonRBracket", <<>>, <<"]">>)>>
      [] v.k = "obj" ->
            <<Token("JsonLBrace", <<>>, <<"{">>)>>
            \o TokenizeObject(v.o, 1)
            \o <<Token("JsonRBrace", <<>>, <<"}">>)>>
\* The loop over an array's elements with a comma after each of them.
RECURSIVE TokenizeArrayCommaAfterEach(_, _)
TokenizeArrayCommaAfterEach(a, i) ==
    IF i > Len(a) THEN <<>>
    ELSE tokenize_json_value(a[i])
         \o <<Token("JsonComma", <<>>, <<",">>)>>
         \o TokenizeArrayCommaAfterEach(a, i + 1)

\* The loop over an array's elements, from the i-th on.
TokenizeArray(a, i) ==
    IF i > Len(a) THEN <<>>
    ELSE tokenize_json_value(a[i])
         \o (IF i < Len(a) THEN <<Token("JsonComma", <<>>, <<",">>)>> ELSE <<>>)
         \o TokenizeArray(a, i + 1)
\* The loop over an object's entries, from the i-th on.
TokenizeObject(o, i) ==
    IF i > Len(o) THEN <<>>
    ELSE <<Token("StringLiteral", o[i][1], Quoted(o[i][1])),
           Token("JsonColon", <<>>, <<":">>)>>
         \o tokenize_json_value(o[i][2])
         \o (IF i < Len(o) THEN <<Token("JsonComma", <<>>, <<",">>)>> ELSE <<>>)
         \o TokenizeObject(o, i + 1)

(***************************************************************************)
(* JSON text, read: serde_json::from_str as a recursive-descent reader of  *)
(* the grammar of RFC 8259 over the characters of the model (which have no *)
(* white space).  A reading is [ok, v, rest]: whether a value was read,    *)
(* the value, and the text after it.                                       *)
(***************************************************************************)
Reading(ok, v, rest) == [ok |-> ok, v |-> v, rest |-> rest]

Failed == Reading(FALSE, JsonNull, <<>>)

StartsWith(text, prefix) ==
    Len(text) >= Len(prefix) /\ SubSeq(text, 1, Len(prefix)) = prefix

Drop(text, n) == SubSeq(text, n + 1, Len(text))

Digits == {"0", "1"}

\* The length of the longest prefix of text made of digits.
RECURSIVE DigitRun(_)
DigitRun(text) ==
    IF text # <<>> /\ Head(text) \in Digits THEN 1 + DigitRun(Tail(text)) ELSE 0

\* number = [ minus ] int [ frac ]
ReadNumber(text) ==
    LET sign == IF StartsWith(text, <<"-">>) THEN 1 ELSE 0
        int == DigitRun(Drop(text, sign))
        leading_zero == int > 1 /\ text[sign + 1] = "0"
        after_int == Drop(text, sign + int)
        frac == IF StartsWith(after_int, <<".">>) THEN DigitRun(Drop(after_int, 1)) ELSE 0
        dotted == StartsWith(after_int, <<".">>)
        length == sign + int + (IF dotted THEN 1 + frac ELSE 0)
    IN  IF int = 0 \/ leading_zero \/ (dotted /\ frac = 0) THEN Failed
        ELSE Reading(TRUE, JsonNumber(SubSeq(text, 1, length)), Drop(text, length))

\* The characters of a string up to its closing quote: [ok, s, rest].  A
\* backslash must be followed by a character it may escape.
RECURSIVE ReadChars(_)
ReadChars(text) ==
    IF text = <<>> THEN Failed
    ELSE IF Head(text) = DQ THEN Reading(TRUE, <<>>, Tail(text))
    ELSE IF Head(text) \in {LF, CR, TAB} THEN Failed
    ELSE IF Head(text) = BSL
         THEN IF Len(text) >= 2 /\ text[2] \in {DQ, BSL}
              THEN LET more == ReadChars(Drop(text, 2))
                   IN  IF more.ok THEN Reading(TRUE, <<text[2]>> \o more.v, more.rest)
                       ELSE Failed
              ELSE Failed
    ELSE LET more == ReadChars(Tail(text))
         IN  IF more.ok THEN Reading(TRUE, <<Head(text)>> \o more.v, more.rest)
             ELSE Failed

ReadString(text) ==
    IF StartsWith(text, <<DQ>>)
    THEN LET r == ReadChars(Tail(text))
         IN  IF r.ok THEN Reading(TRUE, JsonString(r.v), r.rest) ELSE Failed
    ELSE Failed

RECURSIVE ReadValue(_), ReadElements(_), ReadMembers(_)
ReadValue(text) ==
    IF StartsWith(text, <<"n", "u", "l", "l">>) THEN Reading(TRUE, JsonNull, Drop(text, 4))
    ELSE IF StartsWith(text, <<"t", "r", "u", "e">>)
         THEN Reading(TRUE, JsonBool(TRUE), Drop(text, 4))
    ELSE IF StartsWith(text, <<"f", "a", "l", "s", "e">>)
         THEN Reading(TRUE, JsonBool(FALSE), Drop(text, 5))
    ELSE IF StartsWith(text, <<DQ>>) THEN ReadString(text)
    ELSE IF StartsWith(text, <<"[">>)
         THEN IF StartsWith(text, <<"[", "]">>)
              THEN Reading(TRUE, JsonArray(<<>>), Drop(text, 2))
              ELSE LET r == ReadElements(Tail(text))
                   IN  IF r.ok THEN Reading(TRUE, JsonArray(r.v), r.rest) ELSE Failed
    ELSE IF StartsWith(text, <<"{">>)
         THEN IF StartsWith(text, <<"{", "}">>)
              THEN Reading(TRUE, JsonObject(<<>>), Drop(text, 2))
              ELSE LET r == ReadMembers(Tail(text))
                   IN  IF r.ok THEN Reading(TRUE, JsonObject(r.v), r.rest) ELSE Failed
    ELSE ReadNumber(text)
\* value *( "," value ) "]"
ReadElements(text) ==
    LET first == ReadValue(text)
    IN  IF ~first.ok THEN Failed
        ELSE IF StartsWith(first.rest, <<"]">>)
             THEN Reading(TRUE, <<first.v>>, Tail(first.rest))
        ELSE IF StartsWith(first.rest, <<",">>)
             THEN LET more == ReadElements(Tail(first.rest))
                  IN  IF more.ok THEN Reading(TRUE, <<first.v>> \o more.v, more.rest)
                      ELSE Failed
        ELSE Failed
\* string ":" value *( "," string ":" value ) "}"
ReadMembers(text) ==
    LET key == ReadString(text)
    IN  IF ~key.ok \/ ~StartsWith(key.rest, <<":">>) THEN Failed
        ELSE LET val == ReadValue(Tail(key.rest))
             IN  IF ~val.ok THEN Failed
                 ELSE IF StartsWith(val.rest, <<"}">>)
                      THEN Reading(TRUE, <<<<key.v.s, val.v>>>>, Tail(val.rest))
                 ELSE IF StartsWith(val.rest, <<",">>)
                      THEN LET more == ReadMembers(Tail(val.rest))
                           IN  IF more.ok
                               THEN Reading(TRUE, <<<<key.v.s, val.v>>>> \o more.v,
                                            more.rest)
                               ELSE Failed
                 ELSE Failed

\* A JSON document is one value and nothing after it.
ReadDocument(text) ==
    LET r == ReadValue(text)
    IN  IF r.ok /\ r.rest = <<>> THEN r ELSE Failed

(***************************************************************************)
(* The wrap-aware JSON renderer.                                           *)
(***************************************************************************)
JsonRecord(id, level, file_name, toks) ==
    [id |-> id, level |-> level, file_name |-> file_name, ctype |-> "json",
     content |-> <<>>, tokens |-> toks]

\* The record of a message that parsed: its tokens, and the message itself
\* kept for reference.
ParsedRecord(id, level, file_name, msg, toks) ==
    [id |-> id, level |-> level, file_name |-> file_name, ctype |-> "json",
     content |-> msg, tokens |-> toks]

\* The messages logged with the json feature: texts that are JSON documents
\* and texts that are not.
Messages ==
    {<<"a">>, <<"[", "1">>, <<"[", "1", "]">>, <<"{", DQ, "a", DQ, ":", "1", "}">>,
     <<"n", "u", "l", "l">>}

\* The json feature taking no message for JSON.
RecordNeverParsed(id, level, file_name, msg) == TextRecord(id, level, file_name, msg)

\* log with the json feature: the record for a message, of its tokens when
\* serde_json::from_str reads it and of its text otherwise.
RecordOfMessage(id, level, file_name, msg) ==
    LET gg == ReadDocument(msg)
    IN  IF gg.ok
        THEN ParsedRecord(id, level, file_name, msg, tokenize_json_value(gg.v))
        ELSE TextRecord(id, level, file_name, msg)

\* The leaves of the trees that are rendered.
RenderLeaves ==
    {JsonNull, JsonNumber(<<"1">>), JsonString(<<"a">>), JsonString(<<EAcute>>)}

RenderValues == JsonTrees(RenderLeaves, MaxNodes)

\* The text print_json_color prints for a token.
TokenText(tok) ==
    CASE tok.kind = "JsonLBrace" -> <<"{">>
      [] tok.kind = "JsonRBrace" -> <<"}">>
      [] tok.kind = "JsonLBracket" -> <<"[">>
      [] tok.kind = "JsonRBracket" -> <<"]">>
      [] tok.kind = "JsonColon" -> <<":", SP>>
      [] tok.kind = "JsonComma" -> <<",", SP>>
      [] tok.kind = "StringLiteral" -> Quoted(tok.lit)
      [] tok.kind = "NumberLiteral" -> tok.lit
      [] tok.kind = "BooleanLiteral" -> tok.lit
      [] tok.kind = "NullLiteral" -> <<"n", "u", "l", "l">>

\* The line break of a wrap, told from the record's last one.
MarkWrap(s) == [s EXCEPT !.out[Len(s.out)].kind = "wrap"]

Wrapped(s, ret, panic) == [s |-> s, ret |-> ret, panic |-> panic]

\* safe_wrap_print_json on a terminal tw wide: the terminal state it leaves,
\* what it returns, and whether it panicked: on the underflow of
\* tw - right_pad under overflow checks, or on slicing the text at a byte
\* that is not the last one of a character.
RECURSIVE safe_wrap_print_json(_, _, _, _, _, _, _, _)
safe_wrap_print_json(s, text, right_pad, file_name, print_filename, tw, profile, rec) ==
    IF tw < right_pad /\ profile = "debug" THEN Wrapped(s, FALSE, TRUE)
    ELSE
    LET width == (tw - right_pad + 1) % UsizeModulus
        available_width == Max(0, width - s.cursor_pos)
    IN  IF ByteLen(text) >= available_width
        THEN LET taken == Min(available_width, Len(text))
                 \* the character that holds the byte at split_point
                 split == IF taken = 0 THEN 1 ELSE taken
             IN  IF text = <<>> \/ Utf8Len(text[split]) > 1
                 THEN Wrapped(s, FALSE, TRUE)
                 ELSE LET s1 == write_string(s, SubSeq(text, 1, split), "content", rec)
                          s2 == pad_to_column(s1, AsI32(width + 1), rec)
                          s3 == IF print_filename
                                THEN write_string(s2, file_name, "origin", rec)
                                ELSE s2
                          s4 == MarkWrap(add_newline(s3, rec))
                          s5 == pad_to_column(s4, tab_stop("Content"), rec)
                          r == safe_wrap_print_json(
                                   s5, SubSeq(text, split + 1, Len(text)), right_pad,
                                   <<>>, FALSE, tw, profile, rec)
                      IN  Wrapped(r.s, r.ret \/ print_filename, r.panic)
        ELSE Wrapped(write_string(s, text, "content", rec), FALSE, FALSE)

\* should_print_filename after a token, with "or" for "exclusive or".
ShouldPrintAfterOr(returned, should_print_filename) ==
    returned \/ should_print_filename

\* should_print_filename after a token: safe_wrap_print_json(..) ^ should_print_filename.
ShouldPrintAfter(returned, should_print_filename) ==
    returned # should_print_filename

\* The end of print_json_color: the origin suffix if it was not printed yet.
PrintJsonEnd(s, c, should_print_filename, profile, rec) ==
    IF ~should_print_filename THEN Wrapped(s, FALSE, FALSE)
    ELSE IF c.width < ByteLen(c.rec.file_name) /\ profile = "debug"
    THEN Wrapped(s, FALSE, TRUE)
    ELSE Wrapped(
             write_string(
                 pad_to_column(
                     s, AsI32(UsizeWrappingSub(c.width, ByteLen(c.rec.file_name))), rec),
                 c.rec.file_name, "origin", rec),
             FALSE, FALSE)

RECURSIVE TokenOps(_)
TokenOps(toks) ==
    IF toks = <<>> THEN <<>>
    ELSE <<Op("token", 0, TokenText(Head(toks)))>> \o TokenOps(Tail(toks))

\* The texts print_json_color prints for the tokens, in order.
TokenTexts(toks) == [i \in 1..Len(toks) |-> TokenText(toks[i])]

RECURSIVE Flat(_)
Flat(texts) == IF texts = <<>> THEN <<>> ELSE Head(texts) \o Flat(Tail(texts))

\* print_json_color: a token at a time, then its end.
PrintJsonColor(toks) == TokenOps(toks) \o <<Op("json_end", 0, <<>>)>>

\* log_impl for a record of JSON tokens: the time and severity columns as for
\* text, the tokens from the content column on, a newline.
LogImplJson(toks) ==
    <<PadOp(tab_stop("Time")), Op("time", 0, <<>>), PadOp(tab_stop("Level")),
      Op("level", 0, <<>>), PadOp(tab_stop("Content"))>>
    \o PrintJsonColor(toks)
    \o <<NewlineOp>>

(***************************************************************************)
(* The public function json of lib.rs: it renders a value in the thread    *)
(* that calls it, through LOGGER's write functions.                        *)
(***************************************************************************)
\* What json renders: its value and level, and no origin.
JsonCallRecord(id, level, v) ==
    [id |-> id, level |-> level, file_name |-> <<>>, ctype |-> "value",
     content |-> <<>>, tokens |-> <<v>>]

\* json_impl: the texts it passes to wrap_print_json, in order.
RECURSIVE json_impl(_), JsonImplArray(_, _), JsonImplObject(_, _)
json_impl(v) ==
    CASE v.k = "null" -> <<<<"n", "u", "l", "l">>>>
      [] v.k = "bool" -> <<BoolText(v.b)>>
      [] v.k = "num" -> <<v.n>>
      [] v.k = "str" -> <<<<DQ>>, v.s, <<DQ>>>>
      [] v.k = "arr" -> <<<<"[">>>> \o JsonImplArray(v.a, 1) \o <<<<"]">>>>
      [] v.k = "obj" -> <<<<"{">>>> \o JsonImplObject(v.o, 1) \o <<<<"}">>>>
\* The loop over an array's elements, from the i-th on.
JsonImplArray(a, i) ==
    IF i > Len(a) THEN <<>>
    ELSE (IF i > 1 THEN <<<<",", SP>>>> ELSE <<>>)
         \o json_impl(a[i]) \o JsonImplArray(a, i + 1)
\* The loop over an object's entries, from the i-th on.
JsonImplObject(o, i) ==
    IF i > Len(o) THEN <<>>
    ELSE (IF i > 1 THEN <<<<",", SP>>>> ELSE <<>>)
         \o <<<<DQ>>, o[i][1], <<DQ>>, <<":", SP>>>>
         \o json_impl(o[i][2]) \o JsonImplObject(o, i + 1)

\* wrap_print_json on a terminal `width` wide, for a text of one-byte
\* characters.  The slices &text[0..width - cursor] and &text[width..] panic
\* when the cursor is past the width (an underflow, or an end past the text)
\* and when the text is shorter than the width.
RECURSIVE wrap_print_json(_, _, _, _)
wrap_print_json(s, text, width, rec) ==
    IF s.cursor_pos + ByteLen(text) > width
    THEN IF s.cursor_pos > width THEN Wrapped(s, FALSE, TRUE)
         ELSE LET s1 == write_string(s, SubSeq(text, 1, width - s.cursor_pos),
                                     "content", rec)
                  s2 == add_newline(s1, rec)
                  s3 == pad_to_column(s2, tab_stop("Content"), rec)
              IN  IF width > Len(text) THEN Wrapped(s3, FALSE, TRUE)
                  ELSE wrap_print_json(s3, SubSeq(text, width + 1, Len(text)),
                                       width, rec)
    ELSE Wrapped(write_string(s, text, "content", rec), FALSE, FALSE)

\* json: the line's head, then json_impl; no line break ends it.
JsonOps(v) ==
    <<PadOp(tab_stop("Time")), Op("time", 0, <<>>), PadOp(tab_stop("Level")),
      Op("level", 0, <<>>), PadOp(tab_stop("Content"))>>
    \o [i \in 1..Len(json_impl(v)) |-> Op("wrap", 0, json_impl(v)[i])]

(***************************************************************************)
(* Threads and the execution of one operation.                             *)
(***************************************************************************)
Producers == {"p1", "p2"}
Consumer == "rx"
Threads == Producers \cup {Consumer}

\* The terminal state the operations act on.
Term ==
    [cursor_pos |-> cursor_pos, last_second |-> last_second, col |-> col,
     out |-> out, order |-> order, time_out |-> time_out, io |-> "ok",
     crashed |-> FALSE]

Outcome(s, ops, flag, panic) == [s |-> s, ops |-> ops, spf |-> flag, panic |-> panic]

\* The build profiles an overflow can show: the one already seen, or either.
Profiles == IF build = "unknown" THEN {"debug", "release"} ELSE {build}

\* Whether the first operation of thread t's render overflows.
Overflows(t) ==
    \/ /\ Head(prog[t]).op = "chunks"
       /\ IF logger = "Logarithmic"
          THEN cur[t].width < 20
          ELSE ChunkDifference(cur[t].width, cur[t].rec.file_name) < 0
    \/ /\ Head(prog[t]).op \in {"token", "json_end"}
       /\ cur[t].width < ByteLen(cur[t].rec.file_name)

\* What executing the first operation of thread t's render does, in a build of
\* the given profile, the clock reading t1 and then t2, the writes to stdout
\* going as io says.
Exec(t, profile, t1, t2, io) ==
    LET op == Head(prog[t])
        rest == Tail(prog[t])
        rec == cur[t].rec
        id == rec.id
        s == [Term EXCEPT !.io = io]
    IN  CASE op.op = "pad" ->
               Outcome(pad_to_column(s, op.n, id), rest, spf[t], FALSE)
          [] op.op = "time" ->
               Outcome(write_time(s, t1, t2, id), rest, spf[t], FALSE)
          [] op.op = "level" ->
               Outcome(IF logger = "Logarithmic"
                       THEN Logarithmic_write_level(s, rec.level, id)
                       ELSE write_level(s, rec.level, id),
                       rest, spf[t], FALSE)
          [] op.op \in {"content", "origin"} ->
               Outcome(write_string(s, op.text, op.op, id), rest, spf[t], FALSE)
          [] op.op = "newline" ->
               Outcome(add_newline(s, id), rest, spf[t], FALSE)
          [] op.op = "chunks" ->
               LET r == IF logger = "Logarithmic"
                        THEN LogarithmicRest(cur[t], profile)
                        ELSE LogImplRest(cur[t], profile)
               IN  Outcome(s, r.ops, spf[t], r.panic)
          [] op.op = "token" ->
               LET r == safe_wrap_print_json(
                            s, op.text, ByteLen(rec.file_name), rec.file_name, spf[t],
                            cur[t].width, profile, id)
               IN  Outcome(r.s, rest, ShouldPrintAfter(r.ret, spf[t]), r.panic)
          [] op.op = "wrap" ->
               LET r == wrap_print_json(s, op.text, cur[t].width, id)
               IN  Outcome(r.s, rest, spf[t], r.panic)
          [] op.op = "json_end" ->
               LET r == PrintJsonEnd(s, cur[t], spf[t], profile, id)
               IN  Outcome(r.s, rest, spf[t], r.panic)

\* A thread executes the next operation of its render, the clock reading no
\* later than `latest`; a panic ends the thread.
Step(t, latest) ==
    /\ prog[t] # <<>>
    /\ ~panicked[t]
    /\ \E profile \in (IF Overflows(t) THEN Profiles ELSE {build}),
          t1 \in (IF Head(prog[t]).op = "time" THEN now..latest ELSE {now}) :
       \E t2 \in (IF Head(prog[t]).op = "time" THEN t1..latest ELSE {t1}),
          io \in IoOutcomes :
       LET done == Exec(t, profile, t1, t2, io)
           r == [done EXCEPT !.panic = @ \/ done.s.crashed]
       IN  /\ build' = profile
           /\ now' = (IF TimeIsCached(Term, t1) THEN t1 ELSE t2)
           /\ cursor_pos' = r.s.cursor_pos
           /\ last_second' = r.s.last_second
           /\ col' = r.s.col
           /\ out' = r.s.out
           /\ order' = r.s.order
           /\ time_out' = r.s.time_out
           /\ prog' = [prog EXCEPT ![t] = IF r.panic THEN <<>> ELSE r.ops]
           /\ spf' = [spf EXCEPT ![t] = r.spf]
           /\ panicked' = [panicked EXCEPT ![t] = r.panic]
           /\ chan' = (IF r.panic /\ t = Consumer THEN <<>> ELSE chan)
           /\ rx_state' = (IF r.panic /\ t = Consumer THEN "Panicked" ELSE rx_state)
    /\ last' = [op |-> Head(prog[t]).op, arg |-> Head(prog[t]).n, from |-> cursor_pos,
                thread |-> t]
    /\ UNCHANGED <<logger, facade, lazy, tty, cur, sender_alive, logged, json_value, tokens>>

(***************************************************************************)
(* Synchronous dispatch: log renders in the calling thread.                *)
(***************************************************************************)
\* log_impl is entered for a record: it reads the terminal width.
LogImplEnter(t, rec, width) ==
    /\ cur' = [cur EXCEPT ![t] = [rec |-> rec, width |-> width]]
    /\ prog' = [prog EXCEPT ![t] = IF rec.ctype = "json"
                                   THEN LogImplJson(rec.tokens)
                                   ELSE LogImplHead]
    /\ spf' = [spf EXCEPT ![t] = TRUE]
    /\ out' = <<>>

\* log_impl returns to its caller, which drops the record.
LogReturn(t) ==
    /\ prog[t] = <<>>
    /\ ~panicked[t]
    /\ cur[t] # Idle
    /\ cur' = [cur EXCEPT ![t] = Idle]
    /\ out' = <<>>
    /\ UNCHANGED <<cursor_pos, last_second, now, build, logger, facade, lazy, tty, col, order,
                   time_out, last, prog, spf, panicked, chan, sender_alive, rx_state,
                   logged, json_value, tokens>>

\* RichLogger::log without the json feature, for a severity among `levels`, a
\* content among `contents` and a terminal width among `widths`, while fewer
\* than `limit` records were logged.
SyncLog(t, levels, contents, widths, limit) ==
    /\ logger = "RichLogger"
    /\ cur[t] = Idle
    /\ ~panicked[t]
    /\ Len(logged) < limit
    /\ \E level \in levels, content \in contents, file_name \in FileNames,
          width \in widths :
          LogImplEnter(t, TextRecord(Len(logged) + 1, level, file_name, content), width)
    /\ logged' = Append(logged, t)
    /\ UNCHANGED <<cursor_pos, last_second, now, build, logger, facade, lazy, tty,
                   col, order, time_out, last, panicked, chan, sender_alive,
                   rx_state, json_value, tokens>>

\* RichLogger::log with the json feature (sync.rs): a message that parses goes
\* through print_json_pretty, any other through log_impl as text.
SyncMessageLog(t, limit) ==
    /\ logger = "RichLogger"
    /\ cur[t] = Idle
    /\ ~panicked[t]
    /\ Len(logged) < limit
    /\ \E level \in {"Info"}, msg \in Messages, file_name \in FileNames,
          width \in WideWidths :
          LogImplEnter(t, RecordOfMessage(Len(logged) + 1, level, file_name, msg), width)
    /\ logged' = Append(logged, t)
    /\ UNCHANGED <<cursor_pos, last_second, now, build, logger, facade, lazy, tty,
                   col, order, time_out, last, panicked, chan, sender_alive,
                   rx_state, json_value, tokens>>

\* Logarithmic::log: a record that is not enabled is dropped.
LogarithmicLog(t, levels, contents, limit) ==
    /\ logger = "Logarithmic"
    /\ cur[t] = Idle
    /\ ~panicked[t]
    /\ Len(logged) < limit
    /\ \E level \in levels, content \in contents, width \in Widths :
          IF LogarithmicEnabled(level)
          THEN /\ cur' = [cur EXCEPT ![t] =
                             [rec |-> TextRecord(Len(logged) + 1, level, <<>>, content),
                              width |-> width]]
               /\ prog' = [prog EXCEPT ![t] = LogarithmicHead]
               /\ out' = <<>>
          ELSE UNCHANGED <<cur, prog, out>>
    /\ logged' = Append(logged, t)
    /\ UNCHANGED <<cursor_pos, last_second, now, build, logger, facade, lazy, tty, col, order,
                   time_out, last, spf, panicked, chan, sender_alive, rx_state,
                   json_value, tokens>>

\* RichLogger::log with the json feature, for a message that parses as the
\* JSON tree g: print_json_pretty tokenizes it and enters log_impl.
SyncJsonLog(t, values, limit) ==
    /\ logger = "RichLogger"
    /\ cur[t] = Idle
    /\ ~panicked[t]
    /\ Len(logged) < limit
    /\ \E level \in {"Info"}, g \in values, file_name \in FileNames, width \in Widths :
          LET toks == tokenize_json_value(g)
          IN  /\ cur' = [cur EXCEPT ![t] =
                            [rec |-> JsonRecord(Len(logged) + 1, level, file_name, toks),
                             width |-> width]]
              /\ prog' = [prog EXCEPT ![t] = LogImplJson(toks)]
    /\ out' = <<>>
    /\ spf' = [spf EXCEPT ![t] = TRUE]
    /\ logged' = Append(logged, t)
    /\ UNCHANGED <<cursor_pos, last_second, now, build, logger, facade, lazy, tty, col, order,
                   time_out, last, panicked, chan, sender_alive, rx_state,
                   json_value, tokens>>

(***************************************************************************)
(* Asynchronous dispatch: log sends the record on the channel and the one  *)
(* consumer thread renders what it receives.                               *)
(***************************************************************************)
\* An empty text, one line, two lines.
AsyncContents == {<<>>, <<"a">>, <<"a", LF, "a">>}

\* Receiver::recv with the newest message taken instead of the oldest.
DequeueNewest(q) == [msg |-> Last(q), rest |-> SubSeq(q, 1, Len(q) - 1)]

\* Receiver::recv on a channel that holds messages: the oldest one.
Dequeue(q) == [msg |-> Head(q), rest |-> Tail(q)]

\* The caller renders the record itself and sends nothing.
LogImplInCaller(t, rec) ==
    /\ LogImplEnter(t, rec, 26)
    /\ UNCHANGED chan

\* self.sender.send(record), its result ignored: the record joins the queue,
\* or is dropped when the receiver is gone; the caller enters no render.
SenderSend(t, rec) ==
    /\ chan' = (IF rx_state = "Running" THEN Append(chan, rec) ELSE chan)
    /\ UNCHANGED <<prog, cur, spf, out>>

\* RichLogger::log without the json feature.
AsyncLog(t) ==
    /\ logger = "RichLogger"
    /\ Len(logged) < MaxRecords
    /\ \E level \in SomeLevels, content \in AsyncContents, file_name \in FileNames :
          SenderSend(t, TextRecord(Len(logged) + 1, level, file_name, content))
    /\ logged' = Append(logged, t)
    /\ UNCHANGED <<cursor_pos, last_second, now, build, logger, facade, lazy, tty,
                   col, order, time_out, last, panicked, sender_alive, rx_state,
                   json_value, tokens>>

\* RichLogger::log with the json feature (async.rs): the record sent holds the
\* tokens of a message that parses and the text of any other.
AsyncMessageLog(t) ==
    /\ logger = "RichLogger"
    /\ Len(logged) < MaxRecords
    /\ \E level \in {"Info"}, msg \in Messages, file_name \in FileNames :
          SenderSend(t, RecordOfMessage(Len(logged) + 1, level, file_name, msg))
    /\ logged' = Append(logged, t)
    /\ UNCHANGED <<cursor_pos, last_second, now, build, logger, facade, lazy, tty,
                   col, order, time_out, last, panicked, sender_alive, rx_state,
                   json_value, tokens>>

\* A thread calls json(value, level): the render starts in that thread,
\* whatever the dispatch mode.
JsonCall(t, values, widths) ==
    /\ logger = "RichLogger"
    /\ cur[t] = Idle
    /\ ~panicked[t]
    /\ Len(logged) < MaxRecords
    /\ \E level \in {"Info"}, v \in values, width \in widths :
          /\ cur' = [cur EXCEPT ![t] =
                        [rec |-> JsonCallRecord(Len(logged) + 1, level, v),
                         width |-> width]]
          /\ prog' = [prog EXCEPT ![t] = JsonOps(v)]
    /\ out' = <<>>
    /\ logged' = Append(logged, t)
    /\ UNCHANGED <<cursor_pos, last_second, now, build, logger, facade, lazy, tty,
                   col, order, time_out, last, spf, panicked, chan, sender_alive,
                   rx_state, json_value, tokens>>

\* The consumer thread's loop: rx.recv() returns a message and log_impl is
\* entered for it, on a terminal of one of the widths.
RecvAt(widths) ==
    /\ rx_state = "Running"
    /\ cur[Consumer] = Idle
    /\ chan # <<>>
    /\ chan' = Dequeue(chan).rest
    /\ \E width \in widths : LogImplEnter(Consumer, Dequeue(chan).msg, width)
    /\ UNCHANGED <<cursor_pos, last_second, now, build, logger, facade, lazy, tty,
                   col, order, time_out, last, panicked, sender_alive, rx_state,
                   logged, json_value, tokens>>

Recv == RecvAt(WideWidths)

(***************************************************************************)
(* The log facade (crate log) as init uses it: set_logger succeeds once    *)
(* per process, and the maximum level starts at Off.                       *)
(***************************************************************************)
LevelFilters == <<"Off", "Error", "Warn", "Info", "Debug", "Trace">>

\* The position of a level or level filter in the order Off < Error < .. < Trace.
Rank(level) == CHOOSE i \in 1..Len(LevelFilters) : LevelFilters[i] = level

\* What the log macros let through: the levels up to the maximum level.
EnabledLevels == {level \in Levels : Rank(level) <= Rank(facade.max_level)}

NoPending == [thread |-> "none", level |-> "Off"]

\* The facade before any init, and after the one init of a process that
\* passes every level.
NotInstalled ==
    [installed |-> FALSE, max_level |-> "Off", pending |-> NoPending, results |-> <<>>]

Installed ==
    [installed |-> TRUE, max_level |-> "Trace", pending |-> NoPending,
     results |-> <<"Ok">>]

\* LOGGER before its first use, and once forced: with the async feature one
\* channel and one consumer thread, without it neither.  `init` is where each
\* thread is in its first use of LOGGER ("waited": it found the cell running).
NotForcing == [t \in Producers |-> "none"]

Unforced == [state |-> "uninit", channels |-> 0, spawned |-> 0, init |-> NotForcing]

Forced == [state |-> "done", channels |-> 1, spawned |-> 1, init |-> NotForcing]

ForcedSync == [state |-> "done", channels |-> 0, spawned |-> 0, init |-> NotForcing]

\* A cell whose closure is run by every thread that finds it not yet done.
RunsInitUntilDone(l) == l.state # "done"

\* LazyLock's Once: the closure is run by the thread that finds the cell
\* untouched; a thread that finds it running waits.
RunsInit(l) == l.state = "uninit"

\* A thread dereferences LOGGER before it is initialized.
ForceLogger(t) ==
    /\ lazy.init[t] = "none"
    /\ lazy.state # "done"
    /\ lazy' = (IF RunsInit(lazy)
                THEN [lazy EXCEPT !.state = "running", !.init[t] = "channel"]
                ELSE [lazy EXCEPT !.init[t] = "waiting"])
    /\ UNCHANGED <<cursor_pos, last_second, now, build, logger, facade, tty, col,
                   out, order, time_out, last, prog, cur, spf, panicked, chan,
                   sender_alive, rx_state, logged, json_value, tokens>>

\* The closure of LOGGER: mpsc::channel().
InitChannel(t) ==
    /\ lazy.init[t] = "channel"
    /\ lazy' = [lazy EXCEPT !.channels = @ + 1, !.init[t] = "spawn"]
    /\ UNCHANGED <<cursor_pos, last_second, now, build, logger, facade, tty, col,
                   out, order, time_out, last, prog, cur, spf, panicked, chan,
                   sender_alive, rx_state, logged, json_value, tokens>>

\* The closure of LOGGER: spawn_logger_thread(rx).
InitSpawn(t) ==
    /\ lazy.init[t] = "spawn"
    /\ lazy' = [lazy EXCEPT !.spawned = @ + 1, !.init[t] = "store"]
    /\ UNCHANGED <<cursor_pos, last_second, now, build, logger, facade, tty, col,
                   out, order, time_out, last, prog, cur, spf, panicked, chan,
                   sender_alive, rx_state, logged, json_value, tokens>>

\* The closure of LOGGER returns the RichLogger and the cell is initialized.
InitStore(t) ==
    /\ lazy.init[t] = "store"
    /\ lazy' = [lazy EXCEPT !.state = "done", !.init[t] = "none"]
    /\ UNCHANGED <<cursor_pos, last_second, now, build, logger, facade, tty, col,
                   out, order, time_out, last, prog, cur, spf, panicked, chan,
                   sender_alive, rx_state, logged, json_value, tokens>>

\* A thread that waited for the cell finds it initialized.
ForceReturn(t) ==
    /\ lazy.init[t] = "waiting"
    /\ lazy.state = "done"
    /\ lazy' = [lazy EXCEPT !.init[t] = "waited"]
    /\ UNCHANGED <<cursor_pos, last_second, now, build, logger, facade, tty, col,
                   out, order, time_out, last, prog, cur, spf, panicked, chan,
                   sender_alive, rx_state, logged, json_value, tokens>>

\* set_logger that installs whatever is installed already.
set_logger_again(f) == [ok |-> TRUE, installed |-> TRUE]

\* log::set_logger (set_boxed_logger): Ok for the first call of the process,
\* an error ever after.
set_logger(f) == [ok |-> ~f.installed, installed |-> TRUE]

\* The level init passes to set_max_level: its argument (lib.rs), Info (main.rs).
InitLevel(level) == IF logger = "Logarithmic" THEN "Info" ELSE level

\* init, up to the return of set_logger, whose argument forces LOGGER: on an
\* error init returns it.
InitSetLogger(t, limit) ==
    /\ facade.pending.thread # t
    /\ Len(facade.results) + (IF facade.pending = NoPending THEN 0 ELSE 1) < limit
    /\ \E level \in {"Warn", "Trace"} :
          LET r == set_logger(facade)
          IN  facade' = [facade EXCEPT
                            !.installed = r.installed,
                            !.pending = IF r.ok
                                        THEN [thread |-> t, level |-> InitLevel(level)]
                                        ELSE @,
                            !.results = IF r.ok THEN @ ELSE Append(@, "Err")]
    /\ lazy' = ForcedSync
    /\ UNCHANGED <<cursor_pos, last_second, now, build, logger, col, out, order,
                   time_out, last, prog, cur, spf, panicked, chan, sender_alive,
                   rx_state, logged, json_value, tokens, tty>>

\* init after set_logger returned Ok: set_max_level, and init returns Ok.
InitSetMaxLevel(t) ==
    /\ facade.pending.thread = t
    /\ facade' = [facade EXCEPT !.max_level = facade.pending.level,
                                !.pending = NoPending,
                                !.results = Append(@, "Ok")]
    /\ UNCHANGED <<cursor_pos, last_second, now, build, logger, col, out, order,
                   time_out, last, prog, cur, spf, panicked, chan, sender_alive,
                   rx_state, logged, json_value, tokens, lazy, tty>>

(***************************************************************************)
(* The specifications.                                                     *)
(***************************************************************************)
InitBase ==
    /\ cursor_pos = 0
    /\ last_second = 0
    /\ now = 1
    /\ build = "unknown"
    /\ col = 0
    /\ out = <<>>
    /\ order = <<>>
    /\ time_out = <<>>
    /\ last = [op |-> "none", arg |-> 0, from |-> 0, thread |-> "none"]
    /\ prog = [t \in Threads |-> <<>>]
    /\ cur = [t \in Threads |-> Idle]
    /\ spf = [t \in Threads |-> TRUE]
    /\ panicked = [t \in Threads |-> FALSE]
    /\ chan = <<>>
    /\ sender_alive = TRUE
    /\ rx_state = "Running"
    /\ logged = <<>>
    /\ json_value = JsonNull
    /\ tokens = <<>>
    /\ facade = Installed

\* Writes to stdout succeed.
InitCommon == InitBase /\ tty = "ok"

\* One thread logs one plain-text record through the synchronous RichLogger.
Init == InitCommon /\ logger = "RichLogger" /\ lazy = ForcedSync

Next ==
    \/ SyncLog("p1", SomeLevels, Contents, Widths, 1)
    \/ Step("p1", now)
    \/ LogReturn("p1")

Spec == Init /\ [][Next]_vars

\* One thread logs a sequence of short plain-text records through the
\* synchronous RichLogger.
SeqNext ==
    \/ SyncLog("p1", SomeLevels, ShortContents, WideWidths, MaxRecords)
    \/ Step("p1", MaxClock)
    \/ LogReturn("p1")

SeqSpec == Init /\ [][SeqNext]_vars

\* One thread logs one JSON message through the synchronous RichLogger.
JsonNext ==
    \/ SyncJsonLog("p1", RenderValues, 1)
    \/ Step("p1", now)
    \/ LogReturn("p1")

JsonSpec == Init /\ [][JsonNext]_vars

\* Threads call init, of lib.rs or of main.rs, and one of them logs what the
\* facade lets through.
FacadeInit ==
    /\ cursor_pos = 0
    /\ last_second = 0
    /\ now = 1
    /\ build = "unknown"
    /\ logger \in {"RichLogger", "Logarithmic"}
    /\ col = 0
    /\ out = <<>>
    /\ order = <<>>
    /\ time_out = <<>>
    /\ last = [op |-> "none", arg |-> 0, from |-> 0, thread |-> "none"]
    /\ prog = [t \in Threads |-> <<>>]
    /\ cur = [t \in Threads |-> Idle]
    /\ spf = [t \in Threads |-> TRUE]
    /\ panicked = [t \in Threads |-> FALSE]
    /\ chan = <<>>
    /\ sender_alive = TRUE
    /\ rx_state = "Running"
    /\ logged = <<>>
    /\ json_value = JsonNull
    /\ tokens = <<>>
    /\ facade = NotInstalled
    /\ lazy = Unforced
    /\ tty = "ok"

FacadeNext ==
    \/ \E t \in Producers : InitSetLogger(t, MaxInits)
    \/ \E t \in Producers : InitSetMaxLevel(t)
    \/ facade.installed /\ SyncLog("p1", EnabledLevels, ShortContents, WideWidths, 1)
    \/ facade.installed /\ LogarithmicLog("p1", EnabledLevels, ShortContents, 1)
    \/ Step("p1", now)
    \/ LogReturn("p1")

FacadeSpec == FacadeInit /\ [][FacadeNext]_vars

\* One thread logs one short plain-text record through the synchronous
\* RichLogger while writes to stdout can fail.
IoInit == InitBase /\ logger = "RichLogger" /\ lazy = ForcedSync /\ tty = "failing"

IoNext ==
    \/ SyncLog("p1", SomeLevels, ShortContents, WideWidths, 1)
    \/ Step("p1", now)
    \/ LogReturn("p1")

IoSpec == IoInit /\ [][IoNext]_vars

\* tokenize_json_value is applied to a JSON tree.
Tokenize ==
    /\ tokens = <<>>
    /\ tokens' = tokenize_json_value(json_value)
    /\ UNCHANGED <<cursor_pos, last_second, now, build, logger, facade, lazy, tty, col, out, order,
                   time_out, last, prog, cur, spf, panicked, chan, sender_alive,
                   rx_state, logged, json_value>>

TokenizeInit ==
    /\ cursor_pos = 0
    /\ last_second = 0
    /\ now = 1
    /\ build = "unknown"
    /\ logger = "RichLogger"
    /\ col = 0
    /\ out = <<>>
    /\ order = <<>>
    /\ time_out = <<>>
    /\ last = [op |-> "none", arg |-> 0, from |-> 0, thread |-> "none"]
    /\ prog = [t \in Threads |-> <<>>]
    /\ cur = [t \in Threads |-> Idle]
    /\ spf = [t \in Threads |-> TRUE]
    /\ panicked = [t \in Threads |-> FALSE]
    /\ chan = <<>>
    /\ sender_alive = TRUE
    /\ rx_state = "Running"
    /\ logged = <<>>
    /\ json_value \in JsonValues
    /\ tokens = <<>>
    /\ facade = Installed
    /\ lazy = ForcedSync
    /\ tty = "ok"

TokenizeSpec == TokenizeInit /\ [][Tokenize]_vars

\* Two producer threads log through the asynchronous RichLogger.
AsyncNext ==
    \/ \E p \in Producers : AsyncLog(p)
    \/ Recv
    \/ Step(Consumer, now)
    \/ LogReturn(Consumer)

AsyncInit == InitCommon /\ logger = "RichLogger" /\ lazy = Forced

AsyncSpec == AsyncInit /\ [][AsyncNext]_vars

\* Two threads make their first calls of log through the asynchronous
\* RichLogger: each dereferences LOGGER, then sends its record.
FirstUseInit == InitCommon /\ logger = "RichLogger" /\ lazy = Unforced

FirstUseNext ==
    \/ \E p \in Producers : ForceLogger(p)
    \/ \E p \in Producers : InitChannel(p)
    \/ \E p \in Producers : InitSpawn(p)
    \/ \E p \in Producers : InitStore(p)
    \/ \E p \in Producers : ForceReturn(p)
    \/ \E p \in Producers :
          /\ lazy.state = "done"
          /\ lazy.init[p] \in {"none", "waited"}
          /\ \A i \in 1..Len(logged) : logged[i] # p
          /\ AsyncLog(p)
    \/ RecvAt(Widths)
    \/ Step(Consumer, now)
    \/ LogReturn(Consumer)

FirstUseSpec == FirstUseInit /\ [][FirstUseNext]_vars

\* A producer thread logs through the asynchronous RichLogger on a terminal
\* of any width: the consumer thread runs until log_impl panics in it.
ConsumerNext ==
    \/ AsyncLog("p1")
    \/ RecvAt(Widths)
    \/ Step(Consumer, now)
    \/ LogReturn(Consumer)

ConsumerSpec == AsyncInit /\ [][ConsumerNext]_vars

\* The asynchronous RichLogger with the json feature: a thread calls json
\* and, back from it, logs a record.
JsonCallValues == {JsonNull, JsonArray(<<JsonNumber(<<"1">>)>>)}

JsonCallNext ==
    \/ logged = <<>> /\ JsonCall("p1", JsonCallValues, Widths)
    \/ logged # <<>> /\ cur["p1"] = Idle /\ AsyncLog("p1")
    \/ Recv
    \/ \E t \in {"p1", Consumer} : Step(t, now)
    \/ \E t \in {"p1", Consumer} : LogReturn(t)

JsonCallSpec == AsyncInit /\ [][JsonCallNext]_vars

\* The json feature: one thread logs messages, through the synchronous
\* RichLogger or through the asynchronous one.
MessageInit == InitCommon /\ logger = "RichLogger" /\ lazy \in {ForcedSync, Forced}

MessageNext ==
    \/ lazy = ForcedSync /\ SyncMessageLog("p1", MaxRecords)
    \/ lazy = Forced /\ AsyncMessageLog("p1")
    \/ lazy = Forced /\ Recv
    \/ \E t \in {"p1", Consumer} : Step(t, now)
    \/ \E t \in {"p1", Consumer} : LogReturn(t)

MessageSpec == MessageInit /\ [][MessageNext]_vars

\* One thread logs one plain-text record through either logger: the
\* RichLogger of lib.rs or the Logarithmic of main.rs.
EitherInit ==
    InitCommon /\ logger \in {"RichLogger", "Logarithmic"} /\ lazy = ForcedSync

EitherNext ==
    \/ SyncLog("p1", Levels, Contents, Widths, 1)
    \/ LogarithmicLog("p1", Levels, Contents, 1)
    \/ Step("p1", now)
    \/ LogReturn("p1")

EitherSpec == EitherInit /\ [][EitherNext]_vars

(***************************************************************************)
(* Properties.                                                             *)
(***************************************************************************)
\* Thread t's render has ended, by returning or by a panic.
RenderEnded(t) == cur[t] # Idle /\ prog[t] = <<>>

\* Thread t's render has returned.
Rendered(t) == RenderEnded(t) /\ ~panicked[t]

SpansOf(kind) == SelectSeq(out, LAMBDA sp : sp.kind = kind)

RECURSIVE Texts(_)
Texts(spans) == IF spans = <<>> THEN <<>> ELSE Head(spans).text \o Texts(Tail(spans))

\* The line segments emitted, re-joined in order.
Rejoined == Texts(SpansOf("content"))

IsLineFeed(c) == c = LF

WithoutLineFeeds(text) == SelectSeq(text, LAMBDA c : ~IsLineFeed(c))

\* C1: the cursor column equals the number of characters written on the
\* current physical line, whatever the text, multi-byte characters included.
C1_ColumnInvariant == cursor_pos = col

\* C3, as claimed: for a positive usable width the segments of a returned
\* render, re-joined, are the original text.
C3_LosslessOriginal ==
    \A t \in Threads :
        (Rendered(t) /\ ChunkDifference(cur[t].width, cur[t].rec.file_name) > 0)
            => Rejoined = cur[t].rec.content

\* C3, amended: for a positive usable width the segments of a returned render,
\* re-joined, are the text with its tabs expanded to four spaces and its
\* carriage returns and line feeds removed; nothing else is dropped, doubled
\* or reordered.
C3_LosslessNormalized ==
    \A t \in Threads :
        (Rendered(t) /\ ChunkDifference(cur[t].width, cur[t].rec.file_name) > 0)
            => Rejoined = WithoutLineFeeds(Normalize(cur[t].rec.content))

\* C3's case: a returned render of a text with a tab and a line feed that was
\* cut into several segments.
C3_Witness ==
    /\ Rendered("p1")
    /\ ChunkDifference(cur["p1"].width, cur["p1"].rec.file_name) > 0
    /\ Len(SpansOf("content")) >= 3
    /\ \E i, j \in 1..Len(cur["p1"].rec.content) :
          cur["p1"].rec.content[i] = TAB /\ cur["p1"].rec.content[j] = LF

\* C4: rendering a plain-text record never panics, whatever the width.
C4_NeverPanics == \A t \in Threads : ~panicked[t]

\* The usable width as the specification has it: clamped to at least 1.
ClampedWidth(c) == Max(1, ChunkDifference(c.width, c.rec.file_name))

NeedsSeveralLines(c) == Len(Lines(c.rec.content, ClampedWidth(c))) > 1

\* C5: the render of a record whose content needs more than one physical line
\* ends with several physical lines written, every line's content starting at
\* column 17 and the origin suffix written once, on the first line, starting
\* at column width - len(origin suffix).
C5_WrappedLayout ==
    \A t \in Threads :
        (RenderEnded(t) /\ NeedsSeveralLines(cur[t]))
            => /\ ~panicked[t]
               /\ Len(SpansOf("newline")) >= 2
               /\ \A i \in 1..Len(out) :
                     out[i].kind = "content" => out[i].col = CONTENT_COLUMN
               /\ Len(SpansOf("origin")) = 1
               /\ \A i \in 1..Len(out) :
                     out[i].kind = "origin"
                         => /\ out[i].col = cur[t].width - Len(cur[t].rec.file_name)
                            /\ \A j \in 1..(i - 1) : out[j].kind # "newline"

\* C9: in every record's output the time column starts at column 0, the
\* severity name at column 11 and the content at column 17.
C9_TabStops ==
    \A i \in 1..Len(out) :
        /\ out[i].kind = "time" => out[i].col = TIME_COLUMN
        /\ out[i].kind = "level" => out[i].col = LEVEL_COLUMN
        /\ out[i].kind = "content" => out[i].col = CONTENT_COLUMN

IsPadding(text) == \A i \in 1..Len(text) : text[i] = SP

\* Two write_time calls of the same second: the second one of the time column
\* they wrote is the cached one.
SameSecond(i, j) ==
    /\ i \in 1..Len(time_out) /\ j \in 1..Len(time_out) /\ i < j
    /\ time_out[i].cache = time_out[j].cache

LastLevel == cur[last.thread].rec.level

\* C8, as claimed: write_level entered at column 11 returns with the cursor at
\* column 17.
C8_LevelPadsToContent ==
    (last.op = "level" /\ last.from = LEVEL_COLUMN) => cursor_pos = CONTENT_COLUMN

\* C8, amended: entered at column 11, Logarithmic::write_level (main.rs) writes
\* the name and pads to column 17, and RichLogger::write_level (lib.rs) writes
\* the name only and returns with the cursor at 11 + len(name), short of
\* column 17.
C8_LevelWritten ==
    (last.op = "level" /\ last.from = LEVEL_COLUMN)
        => /\ Last(SpansOf("level")).text = LevelName(LastLevel)
           /\ Last(SpansOf("level")).col = LEVEL_COLUMN
           /\ IF logger = "Logarithmic"
              THEN cursor_pos = CONTENT_COLUMN /\ Last(out).kind = "pad"
              ELSE /\ cursor_pos = LEVEL_COLUMN + Len(LevelName(LastLevel))
                   /\ cursor_pos < CONTENT_COLUMN
                   /\ Last(out).kind = "level"

\* C8's case: a write_level that pads has just run from column 11, for a
\* severity with a four-letter name.
C8_Witness ==
    /\ last.op = "level" /\ last.from = LEVEL_COLUMN
    /\ logger = "Logarithmic"
    /\ LastLevel = "Warn"

IsSorted(ids) == \A i, j \in 1..Len(ids) : i < j => ids[i] < ids[j]

\* C2: the records' ids number them in the order they were enqueued; the
\* terminal receives every write of a record before the first write of any
\* record enqueued after it, and no record's writes in two parts.
C2_RenderedInChannelOrder == IsSorted(order)

\* C2's case: two records of different producers were on the channel together
\* and both were rendered.
C2_Witness ==
    /\ order = <<1, 2>>
    /\ logged = <<"p2", "p1">>
    /\ Rendered(Consumer)
    /\ Len(SpansOf("newline")) = 2

RECURSIVE ContentsOf(_)
ContentsOf(toks) ==
    IF toks = <<>> THEN <<>> ELSE Head(toks).content \o ContentsOf(Tail(toks))

\* C7: the tokens' content fields, concatenated in order, are a valid JSON
\* document that reads back as the tree that was tokenized.
C7_RoundTrip ==
    tokens # <<>>
        => /\ ReadDocument(ContentsOf(tokens)).ok
           /\ ReadDocument(ContentsOf(tokens)).v = json_value

Indices(kind) == {i \in 1..Len(out) : out[i].kind = kind}

\* C6: in the render of a JSON token stream the origin suffix is never printed
\* twice; once a wrap has occurred it has been printed, right before the first
\* wrap's line break; and when print_json_color has ended without a wrap it
\* has been printed once, after the last token.
C6_OriginOnce ==
    \A t \in Threads :
        cur[t].rec.ctype = "json"
            => /\ Cardinality(Indices("origin")) <= 1
               /\ Indices("wrap") # {}
                     => \E i \in Indices("origin") :
                           /\ i + 1 \in Indices("wrap")
                           /\ \A j \in Indices("wrap") : j > i
               /\ (Rendered(t) /\ Indices("wrap") = {})
                     => \E i \in Indices("origin") : \A j \in Indices("content") : j < i
               /\ Rendered(t) => Cardinality(Indices("origin")) = 1

\* C6's case: a returned render that wrapped more than once.
C6_Witness ==
    /\ Rendered("p1")
    /\ cur["p1"].rec.ctype = "json"
    /\ Cardinality(Indices("wrap")) >= 3
    /\ Cardinality(Indices("origin")) = 1
    /\ cur["p1"].rec.file_name # <<>>

\* C11: pad_to_column(target) writes max(0, target - cursor) spaces and nothing
\* else, and leaves the cursor at max(previous cursor, target): at or past the
\* target it writes no character and the cursor stays.
C11_PadToColumn ==
    last.op = "pad"
        => /\ Last(out).kind = "pad"
           /\ IsPadding(Last(out).text)
           /\ Len(Last(out).text) = Max(0, last.arg - last.from)
           /\ cursor_pos = Max(last.from, last.arg)
           /\ last.from >= last.arg => (Last(out).text = <<>> /\ cursor_pos = last.from)

\* C11's case: a pad_to_column that had columns to fill, after one called with
\* the cursor past its target.
C11_Witness ==
    /\ last.op = "pad" /\ last.arg = 20 /\ last.from = 18
    /\ Len(Last(out).text) = 2
    /\ \E i \in 1..(Len(out) - 1) :
          out[i].kind = "pad" /\ out[i].text = <<>> /\ out[i].col > 0

\* C12: init is at-most-once: only an init whose set_logger was the first of
\* the process sets the maximum level, to its own level, and returns Ok; every
\* other init returns an error and leaves the installed backend and the
\* maximum level as they were; what is installed stays installed.
C12_InitAtMostOnce ==
    [][/\ facade.installed => facade'.installed
       /\ (facade'.results # facade.results /\ Last(facade'.results) = "Err")
             => /\ facade.installed
                /\ facade'.installed = facade.installed
                /\ facade'.max_level = facade.max_level
       /\ facade'.max_level # facade.max_level
             => /\ facade.pending # NoPending
                /\ facade'.max_level = facade.pending.level
                /\ \A i \in 1..Len(facade.results) : facade.results[i] = "Err"
       /\ (facade'.results # facade.results /\ Last(facade'.results) = "Ok")
             => \A i \in 1..Len(facade.results) : facade.results[i] = "Err"]_vars

\* C12's case: a first init set the level to Warn, and two later ones failed.
C12_Witness ==
    /\ facade.installed
    /\ facade.max_level = "Warn"
    /\ facade.pending = NoPending
    /\ Len(facade.results) = 3
    /\ Cardinality({i \in 1..3 : facade.results[i] = "Err"}) = 2

\* The spans of a kind that the render in progress has written for its record.
WrittenTexts(kind) == [i \in 1..Len(SpansOf(kind)) |-> SpansOf(kind)[i].text]

\* C13: with the json feature, in either dispatch, the record a thread renders
\* is the text of its message, severity and origin as logged, exactly when the
\* message fails to parse, and the token stream of the parsed message exactly
\* when it parses; a render takes one path, once: it writes the severity once,
\* and content either as text or as tokens.
C13_ParseFallback ==
    \A t \in Threads :
        cur[t] # Idle
            => LET rec == cur[t].rec
                   gg == ReadDocument(rec.content)
               IN  /\ rec.ctype = "json" <=> gg.ok
                   /\ rec.ctype = "text" <=> ~gg.ok
                   /\ gg.ok => rec.tokens = tokenize_json_value(gg.v)
                   /\ ~panicked[t]
                   /\ Len(SpansOf("level")) <= 1
                   /\ WrittenTexts("level") \in {<<>>, <<LevelName(rec.level)>>}
                   /\ \A i \in 1..Len(out) :
                         out[i].kind = "origin" => out[i].text = rec.file_name
                   /\ Rendered(t)
                         => /\ Len(SpansOf("level")) = 1
                            /\ Len(SpansOf("time")) = 1
                            /\ ~gg.ok => Rejoined = WithoutLineFeeds(Normalize(rec.content))
                            /\ gg.ok => Rejoined = Flat(TokenTexts(rec.tokens))

\* C13's case: in async dispatch a message that does not parse was rendered
\* as text and the next one, which parses, is rendered as tokens.
C13_Witness ==
    /\ lazy = Forced
    /\ order = <<1, 2>>
    /\ Rendered(Consumer)
    /\ cur[Consumer].rec.ctype = "json"
    /\ cur[Consumer].rec.content = <<"[", "1", "]">>
    /\ Len(SpansOf("origin")) = 1

\* C14: write_string does not panic when the output fails, and whether the
\* colored write succeeds or fails the text reaches the output once and the
\* cursor advances by its length: so for each write of a line's content or of
\* the origin suffix by log_impl.
C14_WriteOnce ==
    [][\A t \in Threads :
          (/\ prog[t] # <<>>
           /\ Head(prog[t]).op \in {"content", "origin"}
           /\ prog'[t] # prog[t])
              => /\ ~panicked'[t]
                 /\ out' = Append(out, Span(Head(prog[t]).op, col, Head(prog[t]).text,
                                            cur[t].rec.id))
                 /\ cursor_pos' = cursor_pos + ByteLen(Head(prog[t]).text)]_vars

\* C15: in asynchronous mode a call of log only enqueues the record: it
\* happens whether or not the consumer is in the middle of a render, writes
\* nothing to the terminal, starts no render in the caller and leaves the
\* cursor and the cached second as they were.
C15_LogOnlyEnqueues ==
    [][logged' # logged
          => /\ UNCHANGED <<cursor_pos, last_second, col, out, order, time_out>>
             /\ UNCHANGED <<prog, cur, last>>
             /\ \/ chan' = chan
                \/ /\ Len(chan') = Len(chan) + 1
                   /\ SubSeq(chan', 1, Len(chan)) = chan]_vars

\* A record was logged and queued while the consumer was rendering an earlier one.
C15_Witness ==
    /\ Len(logged) = 2
    /\ Len(chan) = 1
    /\ cur[Consumer] # Idle
    /\ prog[Consumer] # <<>>
    /\ last.thread = Consumer

\* C16: in asynchronous mode the cursor and the cached second are changed by
\* the consumer thread only, whichever public entry point was called.
C16_SingleWriter ==
    [][(cursor_pos' # cursor_pos \/ last_second' # last_second)
          => last'.thread = Consumer]_vars

\* C17: the consumer thread leaves Running only when recv reports the channel
\* closed, so it is running as long as the sending half exists.
C17_RunsWhileSenderExists == sender_alive => rx_state = "Running"

\* C18: however the first calls of log interleave, LOGGER's closure runs once:
\* never more than one channel and one consumer thread, exactly one of each
\* once LOGGER is initialized, and no second spawn after the consumer thread
\* has stopped; no record is sent before that.
C18_OneChannelOneConsumer ==
    /\ lazy.channels <= 1
    /\ lazy.spawned <= 1
    /\ lazy.state = "done" => lazy.channels = 1 /\ lazy.spawned = 1
    /\ logged # <<>> => lazy.state = "done"
    /\ \A p \in Producers :
          lazy.init[p] \in {"channel", "spawn", "store"}
             => \A q \in Producers \ {p} : lazy.init[q] \in {"none", "waiting"}

\* C18's case: both threads made their first call at once, one waited while
\* the other ran the closure; both then logged and the consumer thread died.
C18_Witness ==
    /\ lazy.state = "done"
    /\ lazy.spawned = 1
    /\ \E p \in Producers : lazy.init[p] = "waited"
    /\ {logged[i] : i \in 1..Len(logged)} = Producers
    /\ rx_state = "Panicked"

\* The ids of the records of a sequence of records.
IdsOf(records) == {records[i].id : i \in 1..Len(records)}

\* C19: no record passed to log is lost, those logged after the render of an
\* earlier one failed included: each is in the channel, is the one the
\* consumer thread took last (being rendered, or the one whose render
\* failed), or has been rendered.
C19_NoRecordLost ==
    \A id \in 1..Len(logged) :
       \/ id \in IdsOf(chan)
       \/ cur[Consumer].rec.id = id
       \/ \E i \in 1..Len(order) : order[i] = id

\* C20, for one producer thread: the content of every record it logs through
\* the synchronous RichLogger starts at column 17.
C20_SingleProducerContentColumn ==
    \A i \in 1..Len(out) :
        (out[i].kind = "content" /\ out[i].text # <<>>) => out[i].col = CONTENT_COLUMN

LiteralKinds == {"NullLiteral", "BooleanLiteral", "NumberLiteral", "StringLiteral"}

KindsOf(toks) == [i \in 1..Len(toks) |-> toks[i].kind]

\* The grammar of a token sequence, read over the kinds: a value is a literal,
\* or '[' values separated by commas ']', or '{' entries (string ':' value)
\* separated by commas '}'.  [ok, rest]: whether a value was read, and the
\* kinds after it.
RECURSIVE KindValue(_), KindElements(_), KindEntries(_)
KindValue(ks) ==
    IF ks = <<>> THEN [ok |-> FALSE, rest |-> <<>>]
    ELSE IF Head(ks) \in LiteralKinds THEN [ok |-> TRUE, rest |-> Tail(ks)]
    ELSE IF Head(ks) = "JsonLBracket"
         THEN IF Len(ks) >= 2 /\ ks[2] = "JsonRBracket"
              THEN [ok |-> TRUE, rest |-> Tail(Tail(ks))]
              ELSE KindElements(Tail(ks))
    ELSE IF Head(ks) = "JsonLBrace"
         THEN IF Len(ks) >= 2 /\ ks[2] = "JsonRBrace"
              THEN [ok |-> TRUE, rest |-> Tail(Tail(ks))]
              ELSE KindEntries(Tail(ks))
    ELSE [ok |-> FALSE, rest |-> <<>>]
KindElements(ks) ==
    LET first == KindValue(ks)
    IN  IF ~first.ok \/ first.rest = <<>> THEN [ok |-> FALSE, rest |-> <<>>]
        ELSE IF Head(first.rest) = "JsonRBracket"
             THEN [ok |-> TRUE, rest |-> Tail(first.rest)]
        ELSE IF Head(first.rest) = "JsonComma" THEN KindElements(Tail(first.rest))
        ELSE [ok |-> FALSE, rest |-> <<>>]
KindEntries(ks) ==
    IF Len(ks) < 2 \/ ks[1] # "StringLiteral" \/ ks[2] # "JsonColon"
    THEN [ok |-> FALSE, rest |-> <<>>]
    ELSE LET val == KindValue(Tail(Tail(ks)))
         IN  IF ~val.ok \/ val.rest = <<>> THEN [ok |-> FALSE, rest |-> <<>>]
             ELSE IF Head(val.rest) = "JsonRBrace"
                  THEN [ok |-> TRUE, rest |-> Tail(val.rest)]
             ELSE IF Head(val.rest) = "JsonComma" THEN KindEntries(Tail(val.rest))
             ELSE [ok |-> FALSE, rest |-> <<>>]

\* The keys and leaves of a tree, depth-first in document order, as the texts
\* of their tokens.
RECURSIVE LeafTexts(_), LeafTextsOf(_)
LeafTexts(v) ==
    CASE v.k = "null" -> <<<<"n", "u", "l", "l">>>>
      [] v.k = "bool" -> <<BoolText(v.b)>>
      [] v.k = "num" -> <<v.n>>
      [] v.k = "str" -> <<Quoted(v.s)>>
      [] v.k = "arr" -> LeafTextsOf(v.a)
      [] v.k = "obj" ->
            LeafTextsOf([i \in 1..(2 * Len(v.o)) |->
                            IF i % 2 = 1 THEN JsonString(v.o[(i + 1) \div 2][1])
                            ELSE v.o[i \div 2][2]])
LeafTextsOf(vs) ==
    IF vs = <<>> THEN <<>> ELSE LeafTexts(Head(vs)) \o LeafTextsOf(Tail(vs))

\* The arrays and objects of a tree, counted.
RECURSIVE Containers(_, _), ContainersOf(_, _)
Containers(v, k) ==
    CASE v.k = "arr" -> (IF k = "arr" THEN 1 ELSE 0) + ContainersOf(v.a, k)
      [] v.k = "obj" -> (IF k = "obj" THEN 1 ELSE 0)
                        + ContainersOf([i \in 1..Len(v.o) |-> v.o[i][2]], k)
      [] OTHER -> 0
ContainersOf(vs, k) ==
    IF vs = <<>> THEN 0 ELSE Containers(Head(vs), k) + ContainersOf(Tail(vs), k)

CountKind(toks, kind) == Cardinality({i \in 1..Len(toks) : toks[i].kind = kind})

\* C21: the tokens of a tree follow the grammar of a document (brackets and
\* braces balanced and nested, one comma between consecutive children or
\* entries and none after the last, each entry a key, a colon and a value, an
\* empty array or object its two brackets alone); the literal tokens are the
\* tree's keys and leaves in document order, and there is one opening bracket
\* or brace for each array or object.
C21_DocumentOrder ==
    tokens # <<>>
        => /\ KindValue(KindsOf(tokens)) = [ok |-> TRUE, rest |-> <<>>]
           /\ LET lits == SelectSeq(tokens, LAMBDA tok : tok.kind \in LiteralKinds)
              IN  [i \in 1..Len(lits) |-> lits[i].content] = LeafTexts(json_value)
           /\ CountKind(tokens, "JsonLBracket") = Containers(json_value, "arr")
           /\ CountKind(tokens, "JsonLBrace") = Containers(json_value, "obj")
           /\ json_value \in {JsonArray(<<>>), JsonObject(<<>>)} => Len(tokens) = 2

\* C21's case: an array of two children was tokenized, an object among them.
C21_Witness ==
    /\ json_value.k = "arr"
    /\ Len(json_value.a) = 2
    /\ json_value.a[1].k = "obj"
    /\ CountKind(tokens, "JsonComma") = 1
    /\ Len(tokens) = 6

\* C22: no content segment that is written holds a tab, a carriage return or
\* a line feed, none is longer than the usable width
\* width - 17 - len(origin suffix) - 1, and no physical line is longer than
\* the terminal is wide.
C22_SegmentsFit ==
    \A t \in Threads :
        cur[t] # Idle
            => \A i \in 1..Len(out) :
                  /\ out[i].kind = "content"
                        => /\ \A j \in 1..Len(out[i].text) :
                                 out[i].text[j] \notin {TAB, CR, LF}
                           /\ Len(out[i].text)
                                 <= cur[t].width - CONTENT_COLUMN
                                        - ByteLen(cur[t].rec.file_name) - 1
                  /\ out[i].kind = "newline" => out[i].col <= cur[t].width

\* C23: in the render of a JSON token stream no physical line is longer than
\* the terminal is wide, the origin suffix starts at column
\* width - len(origin suffix) wherever it is printed, and the content after a
\* wrap's line break starts at the content column.
C23_JsonLinesFit ==
    \A t \in Threads :
        cur[t].rec.ctype = "json"
            => \A i \in 1..Len(out) :
                  /\ out[i].kind \in {"wrap", "newline"} => out[i].col <= cur[t].width
                  /\ out[i].kind = "origin"
                        => out[i].col = cur[t].width - Len(cur[t].rec.file_name)
                  /\ (out[i].kind = "content" /\ i > 2 /\ out[i - 2].kind = "wrap")
                        => out[i].col = CONTENT_COLUMN

\* C24: safe_wrap_print_json does not panic, whatever the token's text, the
\* cursor, the origin suffix and the terminal width.
C24_WrapNeverPanics ==
    \A t \in Threads :
        (cur[t].rec.ctype = "json" /\ last.op = "token" /\ last.thread = t)
            => ~panicked[t]

\* C25: on a terminal with a positive usable width, the content of a JSON
\* render ends no later than the content of a plain-text render may: at
\* column width - len(origin suffix) - 1.
C25_SameRightmostColumn ==
    \A t \in Threads :
        (/\ cur[t].rec.ctype = "json"
         /\ ChunkDifference(cur[t].width, cur[t].rec.file_name) >= 1)
            => \A i \in 1..Len(out) :
                  out[i].kind = "content"
                     => out[i].col + Len(out[i].text)
                           <= cur[t].width - Len(cur[t].rec.file_name) - 1

\* C26: when log_impl has returned, whatever the record's content, it has
\* written the origin suffix and ended its last line with a newline, and the
\* cursor is at column 0.
C26_EndsAtColumnZero ==
    \A t \in Threads :
        (Rendered(t) /\ cur[t].rec.ctype = "text")
            => /\ Len(SpansOf("origin")) >= 1
               /\ Last(out).kind = "newline"
               /\ cursor_pos = 0

====
